---- MODULE Spec2Model ----
(***************************************************************************)
(* Model of the webhook server's PV/UV statistics subsystem:               *)
(*   - handlers/doc-status.js   trailing-window variant (10 days, DAU/WAU) *)
(*   - handlers/doc-hook.js     ingestion handler (lines 1-112) and the    *)
(*                              all-history statistics variant (114-375)   *)
(*   - app.js (unnamed/part_000) helmet configuration, route wrapper that  *)
(*                              turns a handler failure into an HTTP 500   *)
(*                              response, default handler, 404 handler and *)
(*                              global error handler                       *)
(*   - handlers/listen.js (unnamed/part_002)  the basic listener           *)
(*                                                                         *)
(* Time.  The code works in Unix-epoch milliseconds.  The model counts     *)
(* time in ticks of MsPerTick milliseconds (ten minutes), so that dates    *)
(* of this century fit the checker's integers: a model time t stands for   *)
(* the instant t * MsPerTick ms.  Every quantity the code derives from a   *)
(* time (calendar day, 30-minute cooldown) is a whole number of ticks.     *)
(* The local calendar is taken to be UTC.                                  *)
(*                                                                         *)
(* Strings built by the code (the YYYY-MM-DD day labels) are sequences of  *)
(* UTF-16 code units, so that equality and the default Array.sort order    *)
(* are those of the JavaScript strings.                                    *)
(***************************************************************************)
EXTENDS Integers, Sequences, FiniteSets, TLC

VARIABLES
    variant,        \* which statistics module is loaded: "window" | "history"
    now,            \* Date.now(), in ticks
    LastReloadTime, \* time of the last honoured forced refresh, 0 at start
    statsCache,     \* docId -> { date, stats } or None
    dirExists,      \* whether the storage directory exists
    dirReadable,    \* whether the server may list it (it may exist unreadable)
    files,          \* file name -> { mtime, content } or NoFile
    reqs,           \* the statistics requests, in order of arrival
    fsOps,          \* storage changes made from outside so far
    ticks,          \* clock advances so far
    aggIn,          \* aggregator harness: the reads array under test
    aggRuns,        \* aggregator harness: the runs made so far
    sent            \* route harness: the requests served, with their responses

vars == <<variant, now, LastReloadTime, statsCache, dirExists, dirReadable,
          files, reqs, fsOps, ticks, aggIn, aggRuns, sent>>
dirVars == <<dirExists, dirReadable, files, fsOps>>
serverVars == <<LastReloadTime, statsCache, dirVars, reqs>>
harnessVars == <<aggIn, aggRuns>>

Variants == {"window", "history"}

----------------------------------------------------------------------------
(* Time scale *)

MsPerTick == 10 * 60 * 1000
TicksPerDay == (24 * 60 * 60 * 1000) \div MsPerTick
\* 30 * 60 * 1000 ms, doc-status.js:291
CooldownTicks == (30 * 60 * 1000) \div MsPerTick

----------------------------------------------------------------------------
(* Date: the calendar fields of an instant (local calendar = UTC) *)

\* Days since 1970-01-01 of the instant's calendar day.
DayOf(ts) == ts \div TicksPerDay

\* Proleptic Gregorian calendar date of a day number (what Date computes),
\* by the usual era / day-of-era / year-of-era decomposition, one step per
\* operator: mp is the month counted from March, doy the day of the year
\* that starts on 1 March.
CivilOfMonth(era, yoe, doy, mp) ==
    [y |-> yoe + era * 400 + (IF mp < 10 THEN 0 ELSE 1),
     m |-> IF mp < 10 THEN mp + 3 ELSE mp - 9,
     d |-> doy - (153 * mp + 2) \div 5 + 1]

CivilOfDoy(era, yoe, doy) == CivilOfMonth(era, yoe, doy, (5 * doy + 2) \div 153)

CivilOfYoe(era, doe, yoe) ==
    CivilOfDoy(era, yoe, doe - (365 * yoe + yoe \div 4 - yoe \div 100))

CivilOfDoe(era, doe) ==
    CivilOfYoe(era, doe,
               (doe - doe \div 1460 + doe \div 36524 - doe \div 146096) \div 365)

CivilOfEra(z, era) == CivilOfDoe(era, z - era * 146097)

CivilFromDays(days) == CivilOfEra(days + 719468, (days + 719468) \div 146097)

getFullYear(ts) == CivilFromDays(DayOf(ts)).y
\* zero-based, as Date.prototype.getMonth
getMonth(ts) == CivilFromDays(DayOf(ts)).m - 1
getDate(ts) == CivilFromDays(DayOf(ts)).d

----------------------------------------------------------------------------
(* Strings as sequences of code units *)

RECURSIVE String(_)
\* String(n) for a non-negative integer: its decimal digits.
String(n) == IF n < 10 THEN <<48 + n>> ELSE String(n \div 10) \o <<48 + (n % 10)>>

\* s.padStart(2, '0')
padStart2(s) == IF Len(s) < 2 THEN <<48>> \o s ELSE s

\* s < t in the order of Array.prototype.sort without a comparator
\* (code unit by code unit, a proper prefix first).
RECURSIVE StrLess(_, _)
StrLess(s, t) ==
    IF s = <<>> THEN t # <<>>
    ELSE IF t = <<>> THEN FALSE
    ELSE IF Head(s) # Head(t) THEN Head(s) < Head(t)
    ELSE StrLess(Tail(s), Tail(t))

\* Array.from(S).sort(): the strings of S in ascending order.
RECURSIVE sort(_)
sort(S) ==
    IF S = {} THEN <<>>
    ELSE LET least == CHOOSE s \in S : \A t \in S \ {s} : StrLess(s, t)
         IN  <<least>> \o sort(S \ {least})

\* `${y}-${m}-${da}`: the year unpadded, month and day padded to two digits.
ymd(date) ==
    String(getFullYear(date)) \o <<45>> \o padStart2(String(getMonth(date) + 1))
        \o <<45>> \o padStart2(String(getDate(date)))

----------------------------------------------------------------------------
(* Event records: the elements of a parsed read-log array *)

\* JSON values a record's lastTs field may hold.  A number n is a time in
\* ticks; Str stands for a non-numeric string; Absent for a missing field;
\* Huge for a number above 8.64e15, the largest time value of a Date.
Num(n) == [k |-> "num", n |-> n]
Huge == [k |-> "huge", n |-> 0]
Str == [k |-> "str", n |-> 0]
Absent == [k |-> "absent", n |-> 0]

\* { name, nickname, lastTs }; the empty string stands for any falsy name.
UserReadInfo(name, nickname, lastTs) ==
    [kind |-> "rec", name |-> name, nickname |-> nickname, lastTs |-> lastTs]

\* The JSON value null as an array element.
Null == [kind |-> "null"]

\* Number(r.lastTs || 0): NaN for a non-numeric string, 0 for a falsy value.
\* big marks a finite number too large for a Date (and for n).
Number(v) ==
    IF v.k = "num" THEN [nan |-> FALSE, big |-> FALSE, n |-> v.n]
    ELSE IF v.k = "huge" THEN [nan |-> FALSE, big |-> TRUE, n |-> 0]
    ELSE IF v.k = "str" THEN [nan |-> TRUE, big |-> FALSE, n |-> 0]
    ELSE [nan |-> FALSE, big |-> FALSE, n |-> 0]

\* ymd(ts) for the number ts: new Date(ts) is an Invalid Date when ts is
\* out of range, its fields are NaN and the label reads "NaN-NaN-NaN".
ymdOfNumber(ts) ==
    IF ts.big THEN <<78, 97, 78, 45, 78, 97, 78, 45, 78, 97, 78>> ELSE ymd(ts.n)

\* The negation of the loop's `continue` test:
\* !Number.isFinite(ts) || ts <= 0.
keepRead(r) ==
    LET ts == Number(r.lastTs) IN ~ts.nan /\ (ts.big \/ ts.n > 0)

\* uid preferring the nickname: r.nickname || r.name || 'unknown'.
uidNicknameFirst(r) ==
    IF r.nickname # "" THEN r.nickname
    ELSE IF r.name # "" THEN r.name
    ELSE "unknown"

\* r.name || r.nickname || 'unknown'
uid(r) ==
    IF r.name # "" THEN r.name
    ELSE IF r.nickname # "" THEN r.nickname
    ELSE "unknown"

\* The accumulators before the loop: byDay, totalPv, globalUsers.
emptyTally == [byDay |-> <<>>, totalPv |-> 0, globalUsers |-> {}]

\* byDay.get(d) || { pv: 0, users: new Set() }
bucketOf(byDay, d) ==
    IF d \in DOMAIN byDay THEN byDay[d] ELSE [pv |-> 0, users |-> {}]

\* countRead counting a page view only for a user new to the day's bucket.
countReadPvAsUv(acc, r) ==
    LET day == ymdOfNumber(Number(r.lastTs))
        old == bucketOf(acc.byDay, day)
        new == [pv    |-> IF uid(r) \in old.users THEN old.pv ELSE old.pv + 1,
                users |-> old.users \cup {uid(r)}]
    IN  [byDay       |-> [d \in DOMAIN acc.byDay \cup {day} |->
                             IF d = day THEN new ELSE acc.byDay[d]],
         totalPv     |-> acc.totalPv + 1,
         globalUsers |-> acc.globalUsers \cup {uid(r)}]

\* countRead adding the name and the nickname as two visitors.
countReadBothIds(acc, r) ==
    LET day == ymdOfNumber(Number(r.lastTs))
        ids == {uid(r), IF r.nickname # "" THEN r.nickname ELSE "unknown"}
        old == bucketOf(acc.byDay, day)
        new == [pv |-> old.pv + 1, users |-> old.users \cup ids]
    IN  [byDay       |-> [d \in DOMAIN acc.byDay \cup {day} |->
                             IF d = day THEN new ELSE acc.byDay[d]],
         totalPv     |-> acc.totalPv + 1,
         globalUsers |-> acc.globalUsers \cup ids]

\* The loop body for a read that is kept: bucket.pv += 1,
\* bucket.users.add(uid), totalPv += 1, globalUsers.add(uid).
countRead(acc, r) ==
    LET day == ymdOfNumber(Number(r.lastTs))
        old == bucketOf(acc.byDay, day)
        new == [pv |-> old.pv + 1, users |-> old.users \cup {uid(r)}]
    IN  [byDay       |-> [d \in DOMAIN acc.byDay \cup {day} |->
                             IF d = day THEN new ELSE acc.byDay[d]],
         totalPv     |-> acc.totalPv + 1,
         globalUsers |-> acc.globalUsers \cup {uid(r)}]

\* for (const r of reads) { ... } from read i on.
RECURSIVE tally(_, _, _)
tally(reads, i, acc) ==
    IF i > Len(reads) THEN acc
    ELSE tally(reads, i + 1,
               IF keepRead(reads[i]) THEN countRead(acc, reads[i]) ELSE acc)

\* `r.lastTs` on a null element raises a TypeError.
aggregateThrows(reads) == \E i \in DOMAIN reads : reads[i].kind = "null"

\* getLastNDays with the loop running from n down to 1: the n days ending
\* on the day before endTs's day.
getLastNDaysExclusive(n, endTs) ==
    LET end == DayOf(endTs) * TicksPerDay
    IN  [k \in 1..n |-> ymd(end - (n - k + 1) * TicksPerDay)]

\* getLastNDays(n, endTs): the n calendar days ending on endTs's day,
\* ascending, counted back from local midnight.
getLastNDays(n, endTs) ==
    LET end == DayOf(endTs) * TicksPerDay
    IN  [k \in 1..n |-> ymd(end - (n - k) * TicksPerDay)]

\* Number of distinct users over the buckets of the listed days.
unionUsers(byDay, days) ==
    UNION {bucketOf(byDay, days[k]).users : k \in DOMAIN days}

\* The trailing-window aggregation with totals taken over the window only.
aggregateDailyPvUvWindowTotals(reads, clocks) ==
    LET t          == tally(reads, 1, emptyTally)
        last10Days == getLastNDays(10, clocks[1])
        yesterday  == ymd(DayOf(clocks[3]) * TicksPerDay - TicksPerDay)
        last7Days  == getLastNDays(7, clocks[4])
        pvSeries   == [k \in 1..10 |-> bucketOf(t.byDay, last10Days[k]).pv]
    IN  [days         |-> last10Days,
         pvSeries     |-> pvSeries,
         uvSeries     |-> [k \in 1..10 |->
                              Cardinality(bucketOf(t.byDay, last10Days[k]).users)],
         totalPv      |-> pvSeries[1] + pvSeries[2] + pvSeries[3] + pvSeries[4]
                              + pvSeries[5] + pvSeries[6] + pvSeries[7]
                              + pvSeries[8] + pvSeries[9] + pvSeries[10],
         totalUv      |-> Cardinality(unionUsers(t.byDay, last10Days)),
         yesterdayDau |-> Cardinality(bucketOf(t.byDay, yesterday).users),
         wau          |-> Cardinality(unionUsers(t.byDay, last7Days))]

\* aggregateDailyPvUv of doc-status.js (trailing-window variant).  One run
\* reads the clock at four places: clocks[1] is what getLastNDays(10) reads
\* (line 90), clocks[2] what `todayStr = ymd(Date.now())` reads (line 100;
\* the value is not used), clocks[3] what `new Date()` of yesterday reads
\* (line 101), clocks[4] what getLastNDays(7) reads (line 108).
aggregateDailyPvUvWindow(reads, clocks) ==
    LET t          == tally(reads, 1, emptyTally)
        last10Days == getLastNDays(10, clocks[1])
        yesterday  == ymd(DayOf(clocks[3]) * TicksPerDay - TicksPerDay)
        last7Days  == getLastNDays(7, clocks[4])
    IN  [days         |-> last10Days,
         pvSeries     |-> [k \in 1..10 |-> bucketOf(t.byDay, last10Days[k]).pv],
         uvSeries     |-> [k \in 1..10 |->
                              Cardinality(bucketOf(t.byDay, last10Days[k]).users)],
         totalPv      |-> t.totalPv,
         totalUv      |-> Cardinality(t.globalUsers),
         yesterdayDau |-> Cardinality(bucketOf(t.byDay, yesterday).users),
         wau          |-> Cardinality(unionUsers(t.byDay, last7Days))]

\* aggregateDailyPvUv of doc-hook.js (all-history variant).
aggregateDailyPvUvHistory(reads) ==
    LET t    == tally(reads, 1, emptyTally)
        days == sort(DOMAIN t.byDay)
    IN  [days      |-> days,
         pvSeries  |-> [k \in 1..Len(days) |-> t.byDay[days[k]].pv],
         uvSeries  |-> [k \in 1..Len(days) |-> Cardinality(t.byDay[days[k]].users)],
         totalPv   |-> t.totalPv,
         totalUv   |-> Cardinality(t.globalUsers)]

\* The aggregator of the loaded module.
aggregateDailyPvUv(v, reads, clocks) ==
    IF v = "window" THEN aggregateDailyPvUvWindow(reads, clocks)
    ELSE aggregateDailyPvUvHistory(reads)

\* What the clock shows at the four places where a run started at `clock`
\* reads it.  The run is synchronous and short: the clock is the same at
\* all four, or midnight falls between two of them (before reading k) and
\* the later ones see the next tick.  A change of tick inside a day shows
\* in no label and is left to the steps of the clock around the run.  The
\* all-history variant reads no clock.
ClockReadings(v, clock) ==
    {<<clock, clock, clock, clock>>} \cup
    IF v = "window" /\ DayOf(clock + 1) # DayOf(clock)
    THEN {[i \in 1..4 |-> IF i < k THEN clock ELSE clock + 1] : k \in 2..4}
    ELSE {}

----------------------------------------------------------------------------
(* Bounds and sample data *)

\* Day number of the day the model starts on (2024-03-01: the ten-day
\* window then spans the end of a leap February).
StartDay == 19783
\* Times the clock advances in one behaviour.
MaxTicks == 1
\* Requests served in one behaviour, and how many may be in flight at once.
MaxReqs == 2
\* Changes made to the storage directory from outside the server.
MaxFsOps == 1
\* Length of the reads array given to the aggregator harness.
MaxReads == 3

\* Noon of the start day.
Noon == StartDay * TicksPerDay + TicksPerDay \div 2
\* The server starts at 23:40 on the start day, two ticks before the
\* calendar day rolls over.
StartNow == StartDay * TicksPerDay + TicksPerDay - 2

\* Noon of 10000-01-01, the first day whose label has a five-digit year
\* (253402344000000 ms, well inside the range of Date).
NoonOfYear10000 == 2932897 * TicksPerDay + TicksPerDay \div 2

\* Timestamps of sample events: today, yesterday, six days ago (the first
\* day of the 7-day window), eight days ago (inside the 10-day window,
\* outside the 7-day one), twenty days ago, and a
\* timestamp far in the future.
SampleTs == {Noon, Noon - TicksPerDay, Noon - 6 * TicksPerDay,
             Noon - 8 * TicksPerDay, Noon - 20 * TicksPerDay, NoonOfYear10000}

\* Events with a usable timestamp, under each shape of viewer identity;
\* events whose timestamp the aggregator rejects; and an event whose
\* timestamp is a number no Date can hold.
SampleEvents ==
    {UserReadInfo(id[1], id[2], Num(t)) :
        id \in {<<"a", "n">>, <<"", "n">>, <<"", "">>}, t \in SampleTs}
    \cup {UserReadInfo("a", "n", v) : v \in {Absent, Str, Num(0 - Noon), Huge}}

----------------------------------------------------------------------------
(* Storage directory *)

\* Document identifiers of requests; each is one character long.
DocIds == {"1", "2"}

\* File names are sequences of characters.
\* doc-hook.js: fileName = `${docName}_${docId}.${docType}`
FileName(docName, docId, docType) == docName \o <<"_">> \o docId \o <<".">> \o docType

\* doc-hook.js: readLogName = fileName + '.json'
readLogName(fileName) == fileName \o <<".", "j", "s", "o", "n">>

\* The files the directory may hold: the content file and the read log of
\* document 1, named "n", and the read log of document 2, whose name
\* "x_1.y" happens to hold the characters "_1.".
ContentFile == FileName(<<"n">>, <<"1">>, <<"m", "d">>)
NLog == readLogName(ContentFile)
XLog == readLogName(FileName(<<"x", "_", "1", ".", "y">>, <<"2">>, <<"m", "d">>))
LogNames == {NLog, XLog}
FileNames == LogNames \cup {ContentFile}

\* s.endsWith(suffix)
endsWith(s, suffix) ==
    /\ Len(suffix) <= Len(s)
    /\ SubSeq(s, Len(s) - Len(suffix) + 1, Len(s)) = suffix

\* s.includes(part)
includes(s, part) ==
    \E i \in 1..(Len(s) - Len(part) + 1) : SubSeq(s, i, i + Len(part) - 1) = part

NoFile == [mtime |-> 0, content |-> [kind |-> "nofile"]]

\* File contents: text that is not JSON, JSON that is no array, an array.
Garbage == [kind |-> "garbage"]
NotArray == [kind |-> "notarray"]
Arr(elems) == [kind |-> "array", elems |-> elems]

EventA == UserReadInfo("a", "n", Num(Noon))
EventN == UserReadInfo("", "n", Num(Noon - TicksPerDay))

\* What an outside writer may leave in the log of document 1, and in the
\* log of document 2.
SampleContents(f) ==
    IF f = NLog
    THEN {Garbage, NotArray, Arr(<<EventA, EventN>>), Arr(<<Null>>)}
    ELSE {Arr(<<EventN>>)}

----------------------------------------------------------------------------
(* Requests and responses *)

None == [none |-> TRUE]
NoStats == [ref |-> 0, val |-> <<>>]
NoResp == [status |-> 0, stats |-> NoStats]

\* The response headers that concern framing: X-Frame-Options ("" when the
\* header is absent) and the frame-ancestors directive of the
\* Content-Security-Policy.
NoHeaders == [xFrameOptions |-> "", frameAncestors |-> ""]

\* setupMiddleware: helmet({ contentSecurityPolicy: { directives: { ...,
\* frameAncestors: ["'self'"] } } }) runs before every route.  The
\* configuration names no X-Frame-Options, so the header is whatever the
\* library sets when left to itself.
helmetHeaders == [xFrameOptions |-> "as helmet sets it", frameAncestors |-> "'self'"]

\* relaxFraming leaving X-Frame-Options as helmet set it.
relaxFramingCspOnly(headers) ==
    [headers EXCEPT !.frameAncestors = "http: https:"]

\* res.removeHeader('X-Frame-Options') and
\* res.setHeader('Content-Security-Policy', ... 'frame-ancestors http: https:').
relaxFraming(headers) ==
    [headers EXCEPT !.xFrameOptions = "", !.frameAncestors = "http: https:"]

\* Values of req.query.format: none, or a string.
NoFormat == <<>>
Formats == {NoFormat, <<"j", "s", "o", "n">>, <<"J", "S", "O", "N">>,
            <<"h", "t", "m", "l">>}

\* String.prototype.toLowerCase, on the letters the formats are made of.
toLowerCase(str) ==
    [i \in DOMAIN str |->
        CASE str[i] = "J" -> "j"
          [] str[i] = "S" -> "s"
          [] str[i] = "O" -> "o"
          [] str[i] = "N" -> "n"
          [] OTHER -> str[i]]

\* (req.query.format || '').toString().toLowerCase() === 'json'
wantsJson(format) == toLowerCase(format) = <<"j", "s", "o", "n">>

\* What the handler sends once it has the statistics: res.json(stats), or
\* res.send(renderHtml(docId, stats)), the page embedding the statistics.
bodyKind(format) == IF wantsJson(format) THEN "json" ELSE "html"

\* A request that has not arrived.  Besides the handler's locals (docId,
\* refresh, format, force, today, candidates, i, latestMtime, target) and
\* its place (pc), a request records for the properties: at, when it
\* arrived; testAt and stampAt, what the clock showed at the cooldown test
\* and at the assignment of LastReloadTime (0 when the line was not run);
\* headers, the framing headers of its response object; seen, the cache
\* entry getStats found; invoked, whether getStats went past its cache test
\* and called the aggregator (readLogForDoc, then aggregateDailyPvUv); log,
\* what readLogForDoc found where it ended ("noDir": no directory at access;
\* "dirGone", "dirDenied": readdir found none, or was refused; "noMatch": no
\* candidate; "statGone": a candidate missing at stat; then the kind of
\* content of the file read: "array", "garbage", "notarray", "nofile");
\* doneAt, when the response was sent; resp, the response, and kind, the
\* form of its body ("json", "html", "error"); fsAt, how many changes the
\* storage directory had seen when the request arrived.  Between the moment
\* a file-system call is carried out, off the event loop, and the settling
\* of its promise the record holds the outcome: error, the code of the
\* rejection ("" when fulfilled); candidates, the listing of readdir cut
\* down to the entries the filter keeps; mtimeMs, the time stat found; raw,
\* the file as readFile read it.
NoReq ==
    [pc |-> "none", docId |-> "", refresh |-> FALSE, format |-> NoFormat,
     headers |-> NoHeaders, at |-> 0, testAt |-> 0, stampAt |-> 0,
     force |-> FALSE, today |-> <<>>, seen |-> None, candidates |-> <<>>,
     i |-> 0, latestMtime |-> 0, target |-> <<>>, invoked |-> FALSE,
     log |-> "", doneAt |-> 0, resp |-> NoResp, kind |-> "", fsAt |-> 0,
     error |-> "", mtimeMs |-> 0, raw |-> NoFile]

\* The statistics requests of the behaviour, arrived or not.
Reqs == DOMAIN reqs

\* The server after start-up, before any request.
ServerInit ==
    /\ LastReloadTime = 0
    /\ statsCache = [d \in DocIds |-> None]
    /\ reqs = [r \in 1..MaxReqs |-> NoReq]
    /\ fsOps = 0
    /\ ticks = 0

----------------------------------------------------------------------------
(* Aggregator harness: the aggregator applied to bounded inputs *)

InitAgg ==
    /\ variant \in Variants
    /\ now = Noon
    /\ aggIn = <<>>
    /\ aggRuns = <<>>
    /\ sent = <<>>
    /\ ServerInit
    /\ dirExists = TRUE
    /\ dirReadable = TRUE
    /\ files = [f \in FileNames |-> NoFile]

\* Extend the array under test by one element.
AggPush(e) ==
    /\ aggRuns = <<>>
    /\ Len(aggIn) < MaxReads
    /\ aggIn' = Append(aggIn, e)
    /\ UNCHANGED <<variant, now, ticks, aggRuns, sent, serverVars>>

\* Run the aggregator on the array, starting at the current time; the
\* record keeps what the clock showed at each of its readings, and the
\* clock is left where the last reading found it.  A TypeError is raised
\* in the loop over the reads, before the clock is read.
AggRun ==
    /\ Len(aggRuns) < 2
    /\ IF aggregateThrows(aggIn)
       THEN /\ aggRuns' = Append(aggRuns,
                   [at |-> now, clocks |-> <<now, now, now, now>>,
                    threw |-> TRUE, out |-> <<>>])
            /\ UNCHANGED now
       ELSE \E clocks \in ClockReadings(variant, now) :
            /\ aggRuns' = Append(aggRuns,
                   [at |-> now, clocks |-> clocks, threw |-> FALSE,
                    out |-> aggregateDailyPvUv(variant, aggIn, clocks)])
            /\ now' = clocks[4]
    /\ UNCHANGED <<variant, ticks, aggIn, sent, serverVars>>

\* Time passes between two runs: to 23:50 of the same day, or a whole day.
AggTick(d) ==
    /\ Len(aggRuns) = 1
    /\ now = Noon
    /\ now' = now + d
    /\ UNCHANGED <<variant, ticks, aggIn, aggRuns, sent, serverVars>>

NextAgg ==
    \/ \E e \in SampleEvents \cup {Null} : AggPush(e)
    \/ AggRun
    \/ \E d \in {TicksPerDay \div 2 - 1, TicksPerDay} : AggTick(d)

SpecAgg == InitAgg /\ [][NextAgg]_vars

----------------------------------------------------------------------------
(* Statistics request: handler, getStats, readLogForDoc *)

\* effectiveForce with the cooldown test written <= instead of <.
effectiveForceInclusive(refresh, clock, last) ==
    refresh /\ ~(clock - last <= CooldownTicks)

\* effectiveForce without the cooldown.
effectiveForceAlways(refresh, clock, last) == refresh

\* handler: let force = refresh;
\* if (force && Date.now() - LastReloadTime < 30 * 60 * 1000) force = false;
\* clock is what Date.now() returns in the test.
effectiveForce(refresh, clock, last) ==
    refresh /\ ~(clock - last < CooldownTicks)

\* nextLastReloadTime without the test of force: every request stamps.
nextLastReloadTimeAlways(force, clock, last) == clock

\* handler: if (force) LastReloadTime = Date.now(); -- the module variable
\* after the line, clock being what this Date.now() returns.
nextLastReloadTime(force, clock, last) ==
    IF force THEN clock ELSE last

\* What the clock shows at the three places where the handler reads it
\* before its first await, when it starts at `clock`: [1] in the cooldown
\* test (line 291, read only when refresh is set), [2] in the assignment of
\* LastReloadTime (line 295, read only when the refresh is honoured), [3]
\* in getStats for today (line 130).  The lines run without a pause: the
\* clock is the same at all three, or it passes to the next tick between
\* two of them, so that the stamp is later than the time tested, or today
\* is read later than both.
handlerReadings(clock) ==
    {<<clock, clock, clock>>, <<clock, clock + 1, clock + 1>>,
     <<clock, clock, clock + 1>>}

\* freshHit without the date test: an entry never goes stale.
freshHitAnyDate(forceRefresh, cache, today) ==
    ~forceRefresh /\ cache # None

\* getStats: !forceRefresh && cache && cache.date === today
freshHit(forceRefresh, cache, today) ==
    ~forceRefresh /\ cache # None /\ cache.date = today

\* getStats: the entry statsCache.set stores, { date: today, stats }.
cacheEntry(today, stats) == [date |-> today, stats |-> stats]

\* readLogForDoc: f.endsWith('.json') && f.includes(`_${docId}.`)
isCandidate(f, docId) ==
    endsWith(f, <<".", "j", "s", "o", "n">>) /\ includes(f, <<"_", docId, ".">>)

\* The orders in which readdir may list the files of S.
Listings(S) ==
    {l \in [1..Cardinality(S) -> S] : \A i, j \in DOMAIN l : l[i] = l[j] => i = j}

\* readLogForDoc: readFile + JSON.parse + Array.isArray under try/catch;
\* a file that cannot be read or holds no array gives [].
parseLog(file) ==
    IF file.content.kind = "array" THEN file.content.elems ELSE <<>>

\* registerRoutes: the catch around the handler answers
\* res.status(500).json({ status: 'error', ... }).
errorResponse == [status |-> 500, stats |-> NoStats]

\* res.json(stats) / res.send(renderHtml(docId, stats))
okResponse(stats) == [status |-> 200, stats |-> stats]

\* Fail with no catch around the handler: the rejection is unhandled, the
\* process ends without a response and restarts with an empty cache.
FailUnhandled(r, how) ==
    /\ reqs' = [reqs EXCEPT ![r].pc = "done", ![r].log = how,
                            ![r].doneAt = now]
    /\ statsCache' = [d \in DocIds |-> None]

\* A rejected promise inside the handler: the catch of the route wrapper
\* finds no response started (the handler responds in its last statement
\* only) and answers 500 on the same response object, whose headers the
\* handler has set.
Fail(r, how) ==
    /\ reqs' = [reqs EXCEPT ![r].pc = "done", ![r].log = how,
                            ![r].doneAt = now, ![r].resp = errorResponse,
                            ![r].kind = "error"]
    /\ UNCHANGED statsCache

\* getStats after readLogForDoc returned reads (how tells its way out):
\* aggregate, store, return; then the handler sends the response in the
\* form the format asks for.  The object built by this call is identified
\* by the request that built it.  The aggregator reads the clock as it
\* runs, and the response leaves at what its last reading showed.
Complete(r, reads, how) ==
    IF aggregateThrows(reads)
    THEN Fail(r, how) /\ UNCHANGED now
    ELSE \E run \in {[end |-> clocks[4],
                       val |-> aggregateDailyPvUv(variant, reads, clocks)] :
                          clocks \in ClockReadings(variant, now)} :
         LET stats == [ref |-> r, val |-> run.val]
         IN  /\ statsCache' = [statsCache EXCEPT ![reqs[r].docId] =
                                   cacheEntry(reqs[r].today, stats)]
             /\ reqs' = [reqs EXCEPT ![r].pc = "done", ![r].log = how,
                                     ![r].doneAt = run.end,
                                     ![r].resp = okResponse(stats),
                                     ![r].kind = bodyKind(reqs[r].format)]
             /\ now' = run.end

\* A request arrives: handler up to `await getStats`, getStats up to the
\* first await of readLogForDoc, where fsp.access is called; or, on a fresh
\* cache entry, getStats to its return and the handler to its response.
\* The headers are relaxed on the response object first; the clock is read
\* at up to three places.
handler(r, docId, refresh, format) ==
    /\ reqs[r].pc = "none"
    /\ \A q \in Reqs : q < r => reqs[q].pc # "none"
    /\ \E clocks \in handlerReadings(now) :
       LET force == effectiveForce(refresh, clocks[1], LastReloadTime)
           today == ymd(clocks[3])
           cache == statsCache[docId]
           req   == [NoReq EXCEPT !.docId = docId, !.refresh = refresh,
                                  !.format = format,
                                  !.headers = relaxFraming(helmetHeaders),
                                  !.at = now,
                                  !.testAt = IF refresh THEN clocks[1] ELSE 0,
                                  !.stampAt = IF force THEN clocks[2] ELSE 0,
                                  !.force = force,
                                  !.today = today, !.seen = cache,
                                  !.fsAt = fsOps]
       IN  /\ LastReloadTime' = nextLastReloadTime(force, clocks[2], LastReloadTime)
           /\ now' = clocks[3]
           /\ reqs' = [reqs EXCEPT ![r] =
                  IF freshHit(force, cache, today)
                  THEN [req EXCEPT !.pc = "done", !.doneAt = clocks[3],
                                   !.resp = okResponse(cache.stats),
                                   !.kind = bodyKind(format)]
                  ELSE [req EXCEPT !.pc = "access", !.invoked = TRUE]]
    /\ UNCHANGED <<variant, statsCache, dirVars, ticks, harnessVars, sent>>

\* Each file-system call of readLogForDoc takes two steps, as the event
\* loop sees it.  The call is carried out off the event loop (accessRead,
\* readdirRead, statRead, readFileRead): its outcome is what the directory
\* holds at that moment.  The promise settles in a later turn of the event
\* loop (accessDone, readdirDone, statDone, readFileSettled), where the
\* handler goes on with that outcome up to its next await.  Other callbacks
\* and changes to the directory fall before, between and after the two.

\* fsp.access(FILE_PATH) is carried out.  It tests that the path exists
\* (mode F_OK), not that the directory can be listed.
accessRead(r) ==
    /\ reqs[r].pc = "access"
    /\ reqs' = [reqs EXCEPT ![r].pc = "accessed",
                            ![r].error = IF dirExists THEN "" ELSE "ENOENT"]
    /\ UNCHANGED <<variant, now, LastReloadTime, statsCache, dirVars, ticks,
                   harnessVars, sent>>

\* await fsp.access(FILE_PATH) settles: a rejection is caught and the
\* history is empty; else fsp.readdir is called.
accessDone(r) ==
    /\ reqs[r].pc = "accessed"
    /\ IF reqs[r].error # ""
       THEN Complete(r, <<>>, "noDir")
       ELSE /\ reqs' = [reqs EXCEPT ![r].pc = "readdir"]
            /\ UNCHANGED <<statsCache, now>>
    /\ UNCHANGED <<variant, LastReloadTime, dirVars, ticks, harnessVars, sent>>

\* fsp.readdir(FILE_PATH) is carried out: the listing is taken now, or the
\* call fails because the directory is gone or may not be listed.  Of the
\* listing the record keeps the entries the filter will keep, in the order
\* listed.
readdirRead(r) ==
    /\ reqs[r].pc = "readdir"
    /\ IF ~dirExists
       THEN reqs' = [reqs EXCEPT ![r].pc = "listed", ![r].error = "ENOENT"]
       ELSE IF ~dirReadable
       THEN reqs' = [reqs EXCEPT ![r].pc = "listed", ![r].error = "EACCES"]
       ELSE \E candidates \in Listings({f \in FileNames :
                    files[f] # NoFile /\ isCandidate(f, reqs[r].docId)}) :
                reqs' = [reqs EXCEPT ![r].pc = "listed",
                                     ![r].candidates = candidates]
    /\ UNCHANGED <<variant, now, LastReloadTime, statsCache, dirVars, ticks,
                   harnessVars, sent>>

\* await fsp.readdir(FILE_PATH) settles: a rejection leaves the handler;
\* else the candidates are filtered and, when there are several, the first
\* fsp.stat is called, when there is one, fsp.readFile.
readdirDone(r) ==
    /\ reqs[r].pc = "listed"
    /\ LET candidates == reqs[r].candidates
       IN  IF reqs[r].error # ""
           THEN Fail(r, IF reqs[r].error = "EACCES" THEN "dirDenied" ELSE "dirGone")
                /\ UNCHANGED now
           ELSE IF Len(candidates) = 0
           THEN Complete(r, <<>>, "noMatch")
           ELSE /\ reqs' = [reqs EXCEPT
                       ![r].pc = IF Len(candidates) > 1 THEN "stat"
                                 ELSE "readFile",
                       ![r].i = 1,
                       ![r].target = candidates[1]]
                /\ UNCHANGED <<statsCache, now>>
    /\ UNCHANGED <<variant, LastReloadTime, dirVars, ticks, harnessVars, sent>>

\* fsp.stat(candidates[i]) is carried out: the modification time is taken
\* now, or the call fails because the file is gone.
statRead(r) ==
    /\ reqs[r].pc = "stat"
    /\ LET f == reqs[r].candidates[reqs[r].i]
       IN  reqs' = [reqs EXCEPT
                       ![r].pc = "statted",
                       ![r].error = IF files[f] = NoFile THEN "ENOENT" ELSE "",
                       ![r].mtimeMs = files[f].mtime]
    /\ UNCHANGED <<variant, now, LastReloadTime, statsCache, dirVars, ticks,
                   harnessVars, sent>>

\* await fsp.stat(candidates[i]) settles, inside the mtime loop: a
\* rejection leaves the handler; else the candidate becomes the target
\* when its time exceeds latestMtime, and the next fsp.stat or, after the
\* last candidate, fsp.readFile is called.
statDone(r) ==
    /\ reqs[r].pc = "statted"
    /\ LET f == reqs[r].candidates[reqs[r].i]
           newer == reqs[r].mtimeMs > reqs[r].latestMtime
       IN  IF reqs[r].error # ""
           THEN Fail(r, "statGone")
           ELSE /\ reqs' = [reqs EXCEPT
                       ![r].latestMtime = IF newer THEN reqs[r].mtimeMs ELSE @,
                       ![r].target = IF newer THEN f ELSE @,
                       ![r].i = @ + 1,
                       ![r].pc = IF reqs[r].i = Len(reqs[r].candidates)
                                 THEN "readFile" ELSE "stat"]
                /\ UNCHANGED statsCache
    /\ UNCHANGED <<variant, now, LastReloadTime, dirVars, ticks, harnessVars,
                   sent>>

\* fsp.readFile(target) is carried out while no writer has the file open:
\* its whole content is taken now (NoFile when it is gone, which rejects).
\* A read carried out while the file is being rewritten is part of the
\* writer's step (tornReads).
readFileRead(r) ==
    /\ reqs[r].pc = "readFile"
    /\ reqs' = [reqs EXCEPT ![r].pc = "settle", ![r].raw = files[reqs[r].target]]
    /\ UNCHANGED <<variant, now, LastReloadTime, statsCache, dirVars, ticks,
                   harnessVars, sent>>

\* await fsp.readFile(target) settles: parse under try/catch, then
\* aggregate, store and respond.
readFileSettled(r) ==
    /\ reqs[r].pc = "settle"
    /\ Complete(r, parseLog(reqs[r].raw), reqs[r].raw.content.kind)
    /\ UNCHANGED <<variant, LastReloadTime, dirVars, ticks, harnessVars, sent>>

\* The requests whose fsp.readFile of f has been called and not yet
\* carried out.
Reading(f) == {r \in Reqs : reqs[r].pc = "readFile" /\ reqs[r].target = f}

\* The requests after the reads of those in T were carried out while their
\* file was being rewritten.  A writer opens the file with flag 'w', which
\* empties it, and then writes the new text; a read that falls in between
\* gets the empty text or the beginning of the new one, neither of which
\* JSON.parse accepts.
tornReads(T) ==
    [r \in Reqs |->
        IF r \in T
        THEN [reqs[r] EXCEPT !.pc = "settle",
                             !.raw = [mtime |-> now, content |-> Garbage]]
        ELSE reqs[r]]

----------------------------------------------------------------------------
(* Environment: the clock and outside changes to the storage directory *)

\* Time passes: d ticks, at most limit times in a behaviour.
Tick(d, limit) ==
    /\ ticks < limit
    /\ now' = now + d
    /\ ticks' = ticks + 1
    /\ UNCHANGED <<variant, serverVars, harnessVars, sent>>

\* A log file is created or rewritten from outside; the reads of T fall
\* into the rewriting.
FsWrite(f, content, T) ==
    /\ fsOps < MaxFsOps
    /\ dirExists
    /\ files[f] # [mtime |-> now, content |-> content]
    /\ T \subseteq Reading(f)
    /\ files' = [files EXCEPT ![f] = [mtime |-> now, content |-> content]]
    /\ reqs' = tornReads(T)
    /\ fsOps' = fsOps + 1
    /\ UNCHANGED <<variant, now, LastReloadTime, statsCache, dirExists,
                   dirReadable, ticks, harnessVars, sent>>

\* A log file is deleted.
FsRemove(f) ==
    /\ fsOps < MaxFsOps
    /\ files[f] # NoFile
    /\ files' = [files EXCEPT ![f] = NoFile]
    /\ fsOps' = fsOps + 1
    /\ UNCHANGED <<variant, now, LastReloadTime, statsCache, dirExists,
                   dirReadable, reqs, ticks, harnessVars, sent>>

\* The storage directory is deleted with all it holds.
FsRmDir ==
    /\ fsOps < MaxFsOps
    /\ dirExists
    /\ dirExists' = FALSE
    /\ files' = [f \in FileNames |-> NoFile]
    /\ fsOps' = fsOps + 1
    /\ UNCHANGED <<variant, now, LastReloadTime, statsCache, dirReadable,
                   reqs, ticks, harnessVars, sent>>

\* Before the server started the directory received the content file and
\* the log of document 1 and, a day later, possibly the log of document 2;
\* or the log of document 1 holds a null element.
InitFiles ==
    {[f \in FileNames |->
         IF f = ContentFile
         THEN [mtime |-> Noon - 2 * TicksPerDay, content |-> Garbage]
         ELSE IF f = NLog /\ logs >= 1
         THEN [mtime |-> Noon - 2 * TicksPerDay, content |-> Arr(<<EventA>>)]
         ELSE IF f = XLog /\ logs >= 2
         THEN [mtime |-> Noon - TicksPerDay, content |-> Arr(<<EventN>>)]
         ELSE NoFile] : logs \in 1..2}
    \cup {[f \in FileNames |->
         IF f = ContentFile
         THEN [mtime |-> Noon - 2 * TicksPerDay, content |-> Garbage]
         ELSE IF f = NLog
         THEN [mtime |-> Noon - 2 * TicksPerDay, content |-> Arr(<<Null>>)]
         ELSE NoFile]}

\* The statistics route in time: the server starts at 23:40, the directory
\* stays as it is, the clock advances between the steps of the requests.
Init ==
    /\ variant \in Variants
    /\ now = StartNow
    /\ ServerInit
    /\ dirExists = TRUE
    /\ dirReadable = TRUE
    /\ files \in InitFiles
    /\ aggIn = <<>>
    /\ aggRuns = <<>>
    /\ sent = <<>>

\* Time passes: ten minutes (inside the cooldown) or thirty (cooldown
\* over), either of which may lead past midnight.
Next ==
    \/ \E r \in Reqs, docId \in DocIds, refresh \in BOOLEAN :
           handler(r, docId, refresh, NoFormat)
    \/ \E r \in Reqs : accessRead(r)
    \/ \E r \in Reqs : accessDone(r)
    \/ \E r \in Reqs : readdirRead(r)
    \/ \E r \in Reqs : readdirDone(r)
    \/ \E r \in Reqs : statRead(r)
    \/ \E r \in Reqs : statDone(r)
    \/ \E r \in Reqs : readFileRead(r)
    \/ \E r \in Reqs : readFileSettled(r)
    \/ \E d \in {1, CooldownTicks} : Tick(d, MaxTicks)

Spec == Init /\ [][Next]_vars

----------------------------------------------------------------------------
(* The statistics route over a directory that changes *)

\* The server at noon; the directory may be unreadable to it, and is
\* changed from outside while requests are served.
InitFs ==
    /\ variant \in Variants
    /\ now = Noon
    /\ ServerInit
    /\ dirExists = TRUE
    /\ dirReadable \in BOOLEAN
    /\ files \in InitFiles
    /\ aggIn = <<>>
    /\ aggRuns = <<>>
    /\ sent = <<>>

NextFs ==
    \/ \E r \in Reqs, docId \in DocIds, refresh \in BOOLEAN :
           handler(r, docId, refresh, NoFormat)
    \/ \E r \in Reqs : accessRead(r)
    \/ \E r \in Reqs : accessDone(r)
    \/ \E r \in Reqs : readdirRead(r)
    \/ \E r \in Reqs : readdirDone(r)
    \/ \E r \in Reqs : statRead(r)
    \/ \E r \in Reqs : statDone(r)
    \/ \E r \in Reqs : readFileRead(r)
    \/ \E r \in Reqs : readFileSettled(r)
    \/ \E f \in LogNames : \E content \in SampleContents(f) :
       \E T \in SUBSET Reqs : FsWrite(f, content, T)
    \/ FsRemove(NLog)
    \/ FsRmDir

SpecFs == InitFs /\ [][NextFs]_vars

----------------------------------------------------------------------------
(* The cooldown over three requests *)

\* Requests and clock advances of a behaviour of the cooldown.
MaxRefreshReqs == 3
MaxRefreshTicks == 2

\* The server at 23:50, the last tick of the start day, without a storage
\* directory: every lookup ends at fsp.access with an empty history.
InitRefresh ==
    /\ variant = "history"
    /\ now = StartNow + 1
    /\ LastReloadTime = 0
    /\ statsCache = [d \in DocIds |-> None]
    /\ reqs = [r \in 1..MaxRefreshReqs |-> NoReq]
    /\ fsOps = 0
    /\ ticks = 0
    /\ dirExists = FALSE
    /\ dirReadable = TRUE
    /\ files = [f \in FileNames |-> NoFile]
    /\ aggIn = <<>>
    /\ aggRuns = <<>>
    /\ sent = <<>>

\* Time passes: ten or twenty minutes, thirty in two steps.
NextRefresh ==
    \/ \E r \in Reqs, docId \in DocIds, refresh \in BOOLEAN :
           handler(r, docId, refresh, NoFormat)
    \/ \E r \in Reqs : accessRead(r)
    \/ \E r \in Reqs : accessDone(r)
    \/ \E d \in {1, 2} : Tick(d, MaxRefreshTicks)

SpecRefresh == InitRefresh /\ [][NextRefresh]_vars

----------------------------------------------------------------------------
(* Ingestion route: handler of doc-hook.js *)

\* Requests served in one behaviour of the route harness.
MaxSent == 2

\* req.body of an ingestion request.  docName, docId and docType are
\* character sequences and ts a JSON value, <<>> and Absent when missing;
\* user is the viewer ({ name, nickname }) or NoUser; doc tells whether
\* the document content came along; comments is "absent" (the default []
\* applies), "array" (an array of comment objects), "null" (the JSON value
\* null, which the default does not replace) or "nullitem" (an array with
\* a null among its items).
NoUser == [present |-> FALSE, name |-> "", nickname |-> ""]
User(name, nickname) == [present |-> TRUE, name |-> name, nickname |-> nickname]
Body(docName, docId, docType, ts, user, doc, comments) ==
    [docName |-> docName, docId |-> docId, docType |-> docType, ts |-> ts,
     user |-> user, doc |-> doc, comments |-> comments]

\* Bodies of the harness: document 1 seen by viewer "a", by a viewer
\* without names, by nobody, with and without content; bodies that lack
\* one required field each; and bodies with content and comments: a list
\* of comments, null, and a list with a null item.
SampleBodies ==
    {Body(<<"n">>, <<"1">>, <<"m", "d">>, Num(Noon), u, d, "absent") :
        u \in {User("a", "n"), User("", ""), NoUser}, d \in BOOLEAN}
    \cup {Body(<<>>, <<"1">>, <<"m", "d">>, Num(Noon), User("a", "n"), TRUE, "absent"),
          Body(<<"n">>, <<>>, <<"m", "d">>, Num(Noon), User("a", "n"), TRUE, "absent"),
          Body(<<"n">>, <<"1">>, <<>>, Num(Noon), User("a", "n"), TRUE, "absent"),
          Body(<<"n">>, <<"1">>, <<"m", "d">>, Absent, User("a", "n"), TRUE, "absent")}
    \cup {Body(<<"n">>, <<"1">>, <<"m", "d">>, Num(Noon), User("a", "n"), TRUE, c) :
             c \in {"array", "null", "nullitem"}}

\* How a write of the harness goes: it succeeds; it fails before the file
\* is touched (the open is refused); or it fails after the file was opened
\* for writing, which truncated it (the disk is full).
Faults == {"none", "refused", "torn"}

\* missingRequired without the test of ts.
missingRequiredButTs(body) ==
    \/ body.docName = <<>>
    \/ body.docId = <<>>
    \/ body.docType = <<>>

\* !docName || !docId || !docType || !ts
missingRequired(body) ==
    \/ body.docName = <<>>
    \/ body.docId = <<>>
    \/ body.docType = <<>>
    \/ body.ts.k = "absent" \/ (body.ts.k = "num" /\ body.ts.n = 0)

\* The template of the content file calls comments.map(item => item.author
\* ...) outside any try: it throws when comments is no array or holds a
\* null item.  The line is reached with the required fields and a doc.
hookThrows(body) ==
    /\ ~missingRequired(body)
    /\ body.doc
    /\ body.comments \in {"null", "nullitem"}

\* res.json({ code: 1, status: 'error', ... }) and
\* res.json({ code: 0, status: 'ok', ... }): both with HTTP status 200.
errorPayload == [http |-> 200, code |-> 1, status |-> "error"]
okPayload == [http |-> 200, code |-> 0, status |-> "ok"]

\* registerRoutes, the catch around the handler, and the global error
\* handler: res.status(500).json({ status: 'error', ... }).
internalError == [http |-> 500, status |-> "error"]

\* fs.writeFileSync(f, content) inside try/catch: the directory after it.
\* The file is opened with flag 'w', which truncates it, and then written.
writeFileSync(fs, f, content, fault) ==
    IF ~dirExists \/ fault = "refused" THEN fs
    ELSE IF fault = "torn" THEN [fs EXCEPT ![f] = [mtime |-> now, content |-> Garbage]]
    ELSE [fs EXCEPT ![f] = [mtime |-> now, content |-> content]]

\* The read-modify-write of the read log: the directory after it.
\* existsSync ? readFileSync : '[]'; JSON.parse; push; writeFileSync.
\* A log that does not parse, or holds no array, throws before the write.
appendRead(fs, log, user, ts, fault) ==
    LET data == IF fs[log] = NoFile THEN Arr(<<>>) ELSE fs[log].content
    IN  IF data.kind # "array" THEN fs
        ELSE writeFileSync(fs, log,
                 Arr(Append(data.elems, UserReadInfo(user.name, user.nickname, ts))),
                 fault)

\* The directory after the ingestion handler ran on body: as it was when
\* the handler returned early or threw before its first write.
hookWrites(body, contentFault, logFault) ==
    LET fileName == FileName(body.docName, body.docId, body.docType)
        afterDoc == IF body.doc
                    THEN writeFileSync(files, fileName, Garbage, contentFault)
                    ELSE files
    IN  IF missingRequired(body) \/ hookThrows(body) THEN files
        ELSE IF body.user.present
        THEN appendRead(afterDoc, readLogName(fileName), body.user, body.ts, logFault)
        ELSE afterDoc

\* The handler, run on body, opens the read log for writing.
hookOpensLog(body, logFault) ==
    LET log == readLogName(FileName(body.docName, body.docId, body.docType))
    IN  /\ ~missingRequired(body) /\ ~hookThrows(body)
        /\ body.user.present
        /\ dirExists /\ logFault # "refused"
        /\ files[log] = NoFile \/ files[log].content.kind = "array"

\* POST to the ingestion route: the whole handler, which is synchronous,
\* under the catch of registerRoutes.  A fault is drawn only for a write the
\* handler attempts.  The event loop stands still while the handler runs,
\* the reads of the thread pool do not: those of T fall between the opening
\* of the log and its writing.
DocHook(body, contentFault, logFault, T) ==
    /\ Len(sent) < MaxSent
    /\ contentFault # "none" =>
           ~missingRequired(body) /\ ~hookThrows(body) /\ body.doc
    /\ logFault # "none" =>
           /\ ~missingRequired(body) /\ ~hookThrows(body) /\ body.user.present
           /\ LET log == readLogName(FileName(body.docName, body.docId, body.docType))
              IN  files[log] = NoFile \/ files[log].content.kind = "array"
    /\ T \subseteq
           IF hookOpensLog(body, logFault)
           THEN Reading(readLogName(FileName(body.docName, body.docId, body.docType)))
           ELSE {}
    /\ files' = hookWrites(body, contentFault, logFault)
    /\ reqs' = tornReads(T)
    /\ sent' = Append(sent,
           [route |-> "hook", body |-> body,
            contentFault |-> contentFault, logFault |-> logFault,
            headers |-> helmetHeaders,
            resp |-> IF missingRequired(body) THEN errorPayload
                     ELSE IF hookThrows(body) THEN internalError
                     ELSE okPayload,
            before |-> files, after |-> files'])
    /\ UNCHANGED <<variant, now, LastReloadTime, statsCache, dirExists,
                   dirReadable, fsOps, ticks, harnessVars>>

----------------------------------------------------------------------------
(* The other routes, and the route harness *)

\* listen.js: return res.json({ code: 0, status: 'ok', ... })
Listen ==
    /\ Len(sent) < MaxSent
    /\ sent' = Append(sent,
           [route |-> "listen", headers |-> helmetHeaders, resp |-> okPayload])
    /\ UNCHANGED <<variant, now, ticks, harnessVars, serverVars>>

\* createDefaultHandler, which serves a route whose handler file is
\* missing or exports no handler: res.json({ status: 'success', ... })
createDefaultHandler ==
    /\ Len(sent) < MaxSent
    /\ sent' = Append(sent,
           [route |-> "default", headers |-> helmetHeaders,
            resp |-> [http |-> 200, status |-> "success"]])
    /\ UNCHANGED <<variant, now, ticks, harnessVars, serverVars>>

\* A request no route matches: the 404 handler of setupErrorHandling.
NotFound ==
    /\ Len(sent) < MaxSent
    /\ sent' = Append(sent,
           [route |-> "none", headers |-> helmetHeaders,
            resp |-> [http |-> 404, status |-> "error"]])
    /\ UNCHANGED <<variant, now, ticks, harnessVars, serverVars>>

\* A request that fails in the middleware (a body that does not parse):
\* no route handler runs, the global error handler of setupErrorHandling
\* answers.
ErrorHandler ==
    /\ Len(sent) < MaxSent
    /\ sent' = Append(sent,
           [route |-> "middleware", headers |-> helmetHeaders,
            resp |-> internalError])
    /\ UNCHANGED <<variant, now, ticks, harnessVars, serverVars>>

\* The requests of the statistics route that have arrived, and how many
\* requests of any route have.
Arrived == {r \in Reqs : reqs[r].pc # "none"}
Served == Len(sent) + Cardinality(Arrived)

\* The directory when the harness starts: none; or one holding no log of
\* document 1, a log with one read, a log that is no JSON, a log that is
\* no array, or a log with a null element.
InitRoutes ==
    /\ variant \in Variants
    /\ now = Noon
    /\ ServerInit
    /\ aggIn = <<>>
    /\ aggRuns = <<>>
    /\ sent = <<>>
    /\ dirExists \in BOOLEAN
    /\ dirReadable = TRUE
    /\ \E log \in {NoFile} \cup
                   {[mtime |-> Noon - TicksPerDay, content |-> c] :
                        c \in {Arr(<<EventN>>), Garbage, NotArray, Arr(<<Null>>)}} :
          files = [f \in FileNames |-> IF f = NLog /\ dirExists THEN log ELSE NoFile]

\* The routes serve MaxSent requests between them; those of the statistics
\* route run step by step, the others between their steps.
NextRoutes ==
    \/ /\ Served < MaxSent
       /\ \E body \in SampleBodies, contentFault \in Faults, logFault \in Faults :
          \E T \in SUBSET Reqs : DocHook(body, contentFault, logFault, T)
    \/ /\ Served < MaxSent
       /\ \E r \in Reqs, docId \in DocIds, refresh \in BOOLEAN, format \in Formats :
              handler(r, docId, refresh, format)
    \/ \E r \in Reqs : accessRead(r)
    \/ \E r \in Reqs : accessDone(r)
    \/ \E r \in Reqs : readdirRead(r)
    \/ \E r \in Reqs : readdirDone(r)
    \/ \E r \in Reqs : readFileRead(r)
    \/ \E r \in Reqs : readFileSettled(r)
    \/ Served < MaxSent /\ Listen
    \/ Served < MaxSent /\ createDefaultHandler
    \/ Served < MaxSent /\ NotFound
    \/ Served < MaxSent /\ ErrorHandler

SpecRoutes == InitRoutes /\ [][NextRoutes]_vars

----------------------------------------------------------------------------
(* Lookups interleaved with ingestion *)

\* The server at noon with a storage directory that holds no log or the
\* log of document 1 with one read; requests of the statistics route run
\* step by step, ingestion requests run between their steps.  The
\* directory never holds two logs of one document, so no stat is awaited.
InitRace ==
    /\ variant \in Variants
    /\ now = Noon
    /\ ServerInit
    /\ dirExists = TRUE
    /\ dirReadable = TRUE
    /\ aggIn = <<>>
    /\ aggRuns = <<>>
    /\ sent = <<>>
    /\ \E log \in {NoFile, [mtime |-> Noon - TicksPerDay,
                             content |-> Arr(<<EventN>>)]} :
          files = [f \in FileNames |-> IF f = NLog THEN log ELSE NoFile]

\* Ingestion requests that write the log only: all required fields, a
\* viewer, no document content.
ReadBodies ==
    {body \in SampleBodies :
        ~missingRequired(body) /\ body.user.present /\ ~body.doc}

\* The lookups carry no refresh: the cooldown plays no part in the race.
NextRace ==
    \/ \E r \in Reqs, docId \in DocIds :
           handler(r, docId, FALSE, NoFormat)
    \/ \E r \in Reqs : accessRead(r)
    \/ \E r \in Reqs : accessDone(r)
    \/ \E r \in Reqs : readdirRead(r)
    \/ \E r \in Reqs : readdirDone(r)
    \/ \E r \in Reqs : readFileRead(r)
    \/ \E r \in Reqs : readFileSettled(r)
    \/ \E body \in ReadBodies, logFault \in Faults :
       \E T \in SUBSET Reqs : DocHook(body, "none", logFault, T)

SpecRace == InitRace /\ [][NextRace]_vars

----------------------------------------------------------------------------
(* Properties of the statistics requests (under Spec, SpecFs, SpecRefresh) *)

Done == {r \in Reqs : reqs[r].pc = "done"}

\* Request r of the statistics route is answered in this step.
Answered(r) == reqs[r].pc # "done" /\ reqs'[r].pc = "done"

\* The time at which the cache entry e was stored: the time the request
\* that built its stats object completed.
StoredAt(e) == reqs[e.stats.ref].doneAt

\* C1: once a lookup has stored a result on calendar day D, every later
\* lookup for that document on the same day D whose effective force flag is
\* false returns that very cached object and does not invoke the aggregator.
C1_SameDayLookupServedFromCache ==
    \A q \in Arrived :
        LET e == reqs[q].seen
        IN  (~reqs[q].force /\ e # None /\ DayOf(StoredAt(e)) = DayOf(reqs[q].at))
                => /\ ~reqs[q].invoked
                   /\ reqs[q].pc = "done"
                   /\ reqs[q].resp = [status |-> 200, stats |-> e.stats]

\* C2 as stated: two requests with refresh=1 arriving less than 30 minutes
\* apart cause one recomputation in total, the second being downgraded.
C2_OneRecomputationInTotal ==
    \A p, q \in Done :
        (p < q /\ reqs[p].refresh /\ reqs[q].refresh
               /\ reqs[q].at - reqs[p].at < CooldownTicks)
            => /\ ~reqs[q].force
               /\ ~(reqs[p].invoked /\ reqs[q].invoked)

\* C2 as amended: of two requests with refresh=1 arriving less than 30
\* minutes apart at most one is honoured as a forced refresh, the other is
\* downgraded to a normal lookup.
C2_AtMostOneHonoured ==
    \A p, q \in Arrived :
        (p < q /\ reqs[p].refresh /\ reqs[q].refresh
               /\ reqs[q].at - reqs[p].at < CooldownTicks)
            => ~(reqs[p].force /\ reqs[q].force)

\* C2 witness: three requests with refresh=1.  The first was honoured; the
\* second, ten minutes later and for another document, was downgraded and
\* recomputed all the same, its document having no cache entry; the third,
\* twenty minutes after the second and thirty after the first, was honoured.
C2_Witness ==
    /\ Done = {1, 2, 3}
    /\ \A r \in Done : reqs[r].refresh
    /\ reqs[1].force /\ ~reqs[2].force /\ reqs[3].force
    /\ reqs[2].at - reqs[1].at < CooldownTicks
    /\ reqs[3].at - reqs[2].at < CooldownTicks
    /\ reqs[1].docId # reqs[2].docId
    /\ reqs[1].invoked /\ reqs[2].invoked

\* What the clock showed when LastReloadTime was assigned by the last
\* request before r whose refresh was honoured, for any document, or 0 when
\* there is none.  Requests arrive in the order of their numbers.
LastHonoured(r) ==
    LET honoured == {p \in Arrived : p < r /\ reqs[p].force}
    IN  IF honoured = {} THEN 0
        ELSE reqs[CHOOSE p \in honoured : \A x \in honoured : x <= p].stampAt

\* C3: a refresh is honoured if and only if the request carries refresh=1
\* and, when the handler tests the clock, at least 1800 seconds have passed
\* since the last honoured refresh by any caller for any document
\* (initially time 0); the time the clock shows when an honoured request
\* records it, no earlier than the time tested, is the last-refresh
\* timestamp from then on.
C3_EffectiveRefreshRule ==
    /\ \A r \in Arrived :
           /\ reqs[r].force <=>
                  (reqs[r].refresh
                       /\ reqs[r].testAt - LastHonoured(r) >= CooldownTicks)
           /\ reqs[r].force =>
                  (reqs[r].at <= reqs[r].testAt /\ reqs[r].testAt <= reqs[r].stampAt)
    /\ LastReloadTime = LastHonoured(Cardinality(Arrived) + 1)

\* C3 witness: the first refresh was tested at 23:50 and recorded at 00:00;
\* the second, tested thirty minutes after that test and twenty after that
\* record, was downgraded; the third, for another document and tested
\* exactly 1800 seconds after the record, was honoured.
C3_Witness ==
    /\ Arrived = {1, 2, 3}
    /\ reqs[1].force /\ reqs[1].stampAt = reqs[1].testAt + 1
    /\ reqs[2].refresh /\ ~reqs[2].force
    /\ reqs[2].testAt - reqs[1].testAt = CooldownTicks
    /\ reqs[3].force /\ reqs[3].docId # reqs[1].docId
    /\ reqs[3].testAt - reqs[1].stampAt = CooldownTicks
    /\ LastReloadTime = reqs[3].stampAt

\* C4: a lookup made on a calendar day later than the computedForDate of
\* the document's cache entry invokes the aggregator, whatever the force
\* flag, and does not return the stale entry.
C4_StaleEntryIsRecomputed ==
    \A q \in Arrived :
        LET e == reqs[q].seen
        IN  (e # None /\ StrLess(e.date, ymd(reqs[q].at)))
                => /\ reqs[q].invoked
                   /\ reqs[q].resp.stats.ref # e.stats.ref

\* C4 witness: an unforced lookup that found an entry of the day before and
\* answered with statistics it computed itself.
C4_Witness ==
    \E q \in Done :
        /\ ~reqs[q].force
        /\ reqs[q].seen # None
        /\ StrLess(reqs[q].seen.date, ymd(reqs[q].at))
        /\ reqs[q].resp.status = 200
        /\ reqs[q].resp.stats.ref = q

\* C5: every lookup that is not a fresh hit invokes the aggregator,
\* overwrites the document's cache entry with { date: today, stats: the new
\* result } and returns exactly that new result.
C5_MissStoresAndReturnsNewResult ==
    [][\A r \in Reqs :
          (reqs[r].pc # "done" /\ reqs'[r].pc = "done" /\ reqs'[r].invoked)
              => /\ reqs'[r].resp.status = 200
                 /\ reqs'[r].resp.stats.ref = r
                 /\ statsCache'[reqs[r].docId] =
                        [date |-> reqs[r].today, stats |-> reqs'[r].resp.stats]]_vars

\* C6: no failure while locating, stat-ing, reading, parsing or aggregating
\* a log reaches the client: every statistics request completes normally.
C6_NoLookupEndsInError ==
    \A r \in Done : reqs[r].resp.status = 200

\* The all-history result of an empty history.
EmptyHistoryResult ==
    [days |-> <<>>, pvSeries |-> <<>>, uvSeries |-> <<>>, totalPv |-> 0, totalUv |-> 0]

\* A trailing-window result of ten zero buckets and zero totals.
IsTenZeroBuckets(v) ==
    /\ Len(v.days) = 10
    /\ v.pvSeries = [k \in 1..10 |-> 0]
    /\ v.uvSeries = [k \in 1..10 |-> 0]
    /\ v.totalPv = 0
    /\ v.totalUv = 0

\* C7: when the storage directory is inaccessible (there is none, or it
\* may not be listed), or no file matches the document, or the selected
\* file is unparseable or holds no JSON array, the history is empty: the
\* request succeeds with the empty all-history result, or with ten zero
\* buckets and zero totals in the trailing-window variant.
C7_UnusableLogIsEmptyHistory ==
    \A r \in Done :
        reqs[r].log \in {"noDir", "dirDenied", "noMatch", "garbage", "notarray"}
            => /\ reqs[r].resp.status = 200
               /\ variant = "history" => reqs[r].resp.stats.val = EmptyHistoryResult
               /\ variant = "window" => IsTenZeroBuckets(reqs[r].resp.stats.val)

----------------------------------------------------------------------------
(* Properties of the aggregator (checked under SpecAgg) *)

RECURSIVE SumSeq(_)
SumSeq(s) == IF s = <<>> THEN 0 ELSE Head(s) + SumSeq(Tail(s))

\* The harness runs that returned a result.
Returned == {k \in DOMAIN aggRuns : ~aggRuns[k].threw}

\* An array element whose timestamp is a finite positive number.
HasValidTimestamp(e) ==
    /\ e.kind = "rec"
    /\ \/ e.lastTs.k = "num" /\ e.lastTs.n > 0
       \/ e.lastTs.k = "huge"

\* The label of the day bucket a valid event is counted in.
DayLabel(e) == ymdOfNumber(Number(e.lastTs))

\* C8: for every event sequence, in both variants, the aggregate result has
\* totalUv <= totalPv.
C8_TotalUvAtMostTotalPv ==
    \A k \in Returned : aggRuns[k].out.totalUv <= aggRuns[k].out.totalPv

\* C8 witness: a result with several visitors and more views than visitors.
C8_Witness ==
    \E k \in Returned : aggRuns[k].out.totalUv = 2 /\ aggRuns[k].out.totalPv = 3

\* C9: in the all-history variant the entries of pvSeries sum to totalPv,
\* which is the number of events with a valid timestamp.
C9_PvSeriesSumsToTotalPv ==
    \A k \in Returned :
        variant = "history" =>
            /\ SumSeq(aggRuns[k].out.pvSeries) = aggRuns[k].out.totalPv
            /\ aggRuns[k].out.totalPv =
                   Cardinality({i \in DOMAIN aggIn : HasValidTimestamp(aggIn[i])})

\* C9 witness: an all-history result over two days, from an array of three
\* elements of which one has no valid timestamp.
C9_Witness ==
    \E k \in Returned :
        /\ variant = "history"
        /\ aggRuns[k].out.pvSeries = <<1, 1>>
        /\ Len(aggIn) = 3

\* C10: two aggregations of the same unchanged array started on the same
\* calendar day give results equal field by field.
C10_SameDaySameResult ==
    \A j, k \in Returned :
        DayOf(aggRuns[j].at) = DayOf(aggRuns[k].at) =>
            aggRuns[j].out = aggRuns[k].out

\* The valid events of the array under test whose calendar day has label d.
ValidOn(d) ==
    {i \in DOMAIN aggIn : HasValidTimestamp(aggIn[i]) /\ DayLabel(aggIn[i]) = d}

\* C11: the trailing-window variant returns exactly 10 buckets, labelled
\* with the 10 consecutive calendar days ending today, in ascending order,
\* for every history; a history with no valid event on those days gives
\* ten zero buckets.  Today is the day the clock shows when the run builds
\* the window.
C11_WindowIsTenDaysEndingToday ==
    \A k \in Returned :
        variant = "window" =>
            LET out == aggRuns[k].out
            IN  /\ Len(out.days) = 10 /\ Len(out.pvSeries) = 10 /\ Len(out.uvSeries) = 10
                /\ \A i \in 1..10 :
                       out.days[i] = ymd(aggRuns[k].clocks[1] - (10 - i) * TicksPerDay)
                /\ \A i \in 1..9 : StrLess(out.days[i], out.days[i + 1])
                /\ (\A i \in 1..10 : ValidOn(out.days[i]) = {})
                       => /\ out.pvSeries = [i \in 1..10 |-> 0]
                          /\ out.uvSeries = [i \in 1..10 |-> 0]

\* C11 witness: a run late in the evening over a history whose only valid
\* event lies twenty days back, giving ten zero buckets and a total of 1.
C11_Witness ==
    \E k \in Returned :
        /\ variant = "window"
        /\ aggRuns[k].at # Noon
        /\ aggRuns[k].out.totalPv = 1
        /\ aggRuns[k].out.pvSeries = [i \in 1..10 |-> 0]

\* C12: in every result of either variant each day's page-view count is at
\* least that day's unique-visitor count.
C12_DailyPvAtLeastDailyUv ==
    \A k \in Returned :
        LET out == aggRuns[k].out
        IN  /\ DOMAIN out.pvSeries = DOMAIN out.uvSeries
            /\ \A i \in DOMAIN out.pvSeries : out.pvSeries[i] >= out.uvSeries[i]

\* C12 witness: a day with three views by two visitors.
C12_Witness ==
    \E k \in Returned : \E i \in DOMAIN aggRuns[k].out.pvSeries :
        /\ aggRuns[k].out.pvSeries[i] = 3
        /\ aggRuns[k].out.uvSeries[i] = 2

\* C13: in every result of either variant days, pvSeries and uvSeries have
\* the same length, pvSeries[i] is the number of valid events whose
\* calendar day is days[i], and uvSeries[i] the number of distinct subject
\* identifiers among those events.
C13_SeriesAlignedWithDays ==
    \A k \in Returned :
        LET out == aggRuns[k].out
        IN  /\ Len(out.pvSeries) = Len(out.days)
            /\ Len(out.uvSeries) = Len(out.days)
            /\ \A i \in DOMAIN out.days :
                   /\ out.pvSeries[i] = Cardinality(ValidOn(out.days[i]))
                   /\ out.uvSeries[i] =
                          Cardinality({uid(aggIn[j]) : j \in ValidOn(out.days[i])})

\* C13 witness: a result whose series differ from day to day: one day with
\* two views by one visitor next to a day with one view.
C13_Witness ==
    \E k \in Returned : \E i, j \in DOMAIN aggRuns[k].out.days :
        /\ aggRuns[k].out.pvSeries[i] = 2
        /\ aggRuns[k].out.uvSeries[i] = 1
        /\ aggRuns[k].out.pvSeries[j] = 1

\* The labels of the calendar days on which the array under test has at
\* least one valid event.
DaysWithValidEvent ==
    {DayLabel(aggIn[i]) : i \in {j \in DOMAIN aggIn : HasValidTimestamp(aggIn[j])}}

\* Valid event a lies on an earlier calendar day than valid event b.
EarlierDay(a, b) ==
    /\ a.lastTs.k = "num"
    /\ b.lastTs.k = "huge" \/ DayOf(a.lastTs.n) < DayOf(b.lastTs.n)

\* C14: in the all-history variant days holds exactly the calendar days
\* that have a valid event, each once, in ascending chronological order
\* (every event of an earlier entry precedes every event of a later one),
\* and every entry of pvSeries and uvSeries is at least 1.
C14_HistoryDaysChronological ==
    \A k \in Returned :
        variant = "history" =>
            LET out == aggRuns[k].out
            IN  /\ {out.days[i] : i \in DOMAIN out.days} = DaysWithValidEvent
                /\ Len(out.days) = Cardinality(DaysWithValidEvent)
                /\ \A i, j \in DOMAIN out.days :
                       i < j => \A a \in ValidOn(out.days[i]), b \in ValidOn(out.days[j]) :
                                   EarlierDay(aggIn[a], aggIn[b])
                /\ \A i \in DOMAIN out.days :
                       out.pvSeries[i] >= 1 /\ out.uvSeries[i] >= 1

\* The elements of the array under test with a valid timestamp.
ValidEvents == {i \in DOMAIN aggIn : HasValidTimestamp(aggIn[i])}

\* A label made of digits and dashes only, as every calendar day's is.
IsDayLabel(l) == \A i \in DOMAIN l : l[i] = 45 \/ l[i] \in 48..57

\* C17: events whose timestamp is not a finite positive number count
\* nowhere, and every other event counts as one page view on one calendar
\* day: the totals are the number of valid events and of their distinct
\* subjects, each series entry counts the valid events of its day, the
\* series together count each valid event of a listed day once, and every
\* bucket the all-history variant lists is a calendar day.
C17_InvalidTimestampsDiscarded ==
    \A k \in Returned :
        LET out == aggRuns[k].out
            listed == {out.days[i] : i \in DOMAIN out.days}
        IN  /\ out.totalPv = Cardinality(ValidEvents)
            /\ out.totalUv = Cardinality({uid(aggIn[i]) : i \in ValidEvents})
            /\ \A i \in DOMAIN out.days :
                   out.pvSeries[i] = Cardinality(ValidOn(out.days[i]))
            /\ SumSeq(out.pvSeries) =
                   Cardinality({i \in ValidEvents : DayLabel(aggIn[i]) \in listed})
            /\ variant = "history" =>
                   /\ listed = DaysWithValidEvent
                   /\ \A d \in listed : IsDayLabel(d)

\* The subject identifier of an event, as C18 states it.
Subject(e) ==
    CASE e.name # ""     -> e.name
      [] e.nickname # "" -> e.nickname
      [] OTHER           -> "unknown"

\* A valid event carrying neither name nor nickname.
Anonymous(e) == HasValidTimestamp(e) /\ e.name = "" /\ e.nickname = ""

\* C18: visitors are counted by subject identifier (name, else nickname,
\* else "unknown"), so the events of a day that carry neither name nor
\* nickname count together as one visitor of that day, and all such events
\* as at most one visitor in totalUv.
C18_SubjectIdentifierResolution ==
    \A k \in Returned :
        LET out == aggRuns[k].out
            named == {Subject(aggIn[i]) : i \in {j \in ValidEvents : ~Anonymous(aggIn[j])}}
        IN  /\ out.totalUv = Cardinality({Subject(aggIn[i]) : i \in ValidEvents})
            /\ out.totalUv - Cardinality(named) \in {0, 1}
            /\ \A i \in DOMAIN out.days :
                   /\ out.uvSeries[i] =
                          Cardinality({Subject(aggIn[j]) : j \in ValidOn(out.days[i])})
                   /\ ( /\ ValidOn(out.days[i]) # {}
                        /\ \A j \in ValidOn(out.days[i]) : Anonymous(aggIn[j]) )
                          => out.uvSeries[i] = 1

\* C18 witness: a day with two views, both without name and nickname,
\* counted as one visitor, beside a named visitor on another day.
C18_Witness ==
    \E k \in Returned : \E i \in DOMAIN aggRuns[k].out.days :
        /\ Cardinality(ValidOn(aggRuns[k].out.days[i])) = 2
        /\ \A j \in ValidOn(aggRuns[k].out.days[i]) : Anonymous(aggIn[j])
        /\ aggRuns[k].out.uvSeries[i] = 1
        /\ aggRuns[k].out.totalUv = 2

\* C20: in the trailing-window variant totalPv and totalUv count every
\* valid event of the whole array, also those on days outside the window;
\* the sum of pvSeries is at most totalPv, and smaller whenever a valid
\* event lies on a day outside the window.
C20_WindowTotalsCoverWholeHistory ==
    \A k \in Returned :
        variant = "window" =>
            LET out == aggRuns[k].out
                listed == {out.days[i] : i \in DOMAIN out.days}
            IN  /\ out.totalPv = Cardinality(ValidEvents)
                /\ out.totalUv = Cardinality({Subject(aggIn[i]) : i \in ValidEvents})
                /\ SumSeq(out.pvSeries) <= out.totalPv
                /\ (\E i \in ValidEvents : DayLabel(aggIn[i]) \notin listed)
                       => SumSeq(out.pvSeries) < out.totalPv

\* C20 witness: a window result over one view today and views by two
\* other subjects twenty days back.
C20_Witness ==
    \E k \in Returned :
        /\ variant = "window"
        /\ SumSeq(aggRuns[k].out.pvSeries) = 1
        /\ aggRuns[k].out.totalPv = 3
        /\ aggRuns[k].out.totalUv = 3
        /\ \A i \in DOMAIN aggIn :
               HasValidTimestamp(aggIn[i]) /\ aggIn[i].lastTs.k = "num"
               /\ aggIn[i].lastTs.n <= Noon

----------------------------------------------------------------------------
(* Properties of the log selection and of concurrent requests (under SpecFs) *)

\* The finished requests since whose arrival the directory has not changed.
Undisturbed == {r \in Done : reqs[r].fsAt = fsOps}

\* The files the listing of request r holds as candidates.
Candidates(r) == {reqs[r].candidates[k] : k \in DOMAIN reqs[r].candidates}

\* C19: when a lookup finds several files matching its document, the file
\* it reads is one of them, and none of them has a later modification time
\* when it is read.
C19_LatestCandidateIsRead ==
    [][\A r \in Reqs :
          (/\ reqs[r].pc = "readFile" /\ reqs'[r].pc = "settle"
           /\ Len(reqs[r].candidates) > 1)
              => /\ reqs[r].target \in Candidates(r)
                 /\ files[reqs[r].target] # NoFile
                 /\ \A f \in Candidates(r) :
                        files[f].mtime <= files[reqs[r].target].mtime]_vars

\* Two lookups for one document that both found no usable cache entry and
\* were in progress together: each arrived no later than the other ended,
\* and both saw the cache as it was before either stored.
ConcurrentMisses(p, q) ==
    /\ p # q
    /\ reqs[p].docId = reqs[q].docId
    /\ reqs[p].invoked /\ reqs[q].invoked
    /\ reqs[p].seen = reqs[q].seen
    /\ reqs[p].at <= reqs[q].doneAt /\ reqs[q].at <= reqs[p].doneAt

\* C15: two concurrent lookups for one document that both observe the miss
\* both complete with a result; the cache then holds the result of the one
\* that stored last; and when the directory did not change since they
\* arrived the two results are equal.
C15_ConcurrentMissesBothComplete ==
    \A p, q \in Done :
        ConcurrentMisses(p, q) =>
            /\ reqs[p].resp.status = 200 /\ reqs[q].resp.status = 200
            /\ statsCache[reqs[p].docId] # None
            /\ statsCache[reqs[p].docId].stats \in
                   {reqs[p].resp.stats, reqs[q].resp.stats}
            /\ reqs[p].doneAt < reqs[q].doneAt
                   => statsCache[reqs[p].docId].stats = reqs[q].resp.stats
            /\ {p, q} \subseteq Undisturbed
                   => reqs[p].resp.stats.val = reqs[q].resp.stats.val

\* The read log the ingestion handler keeps for document d.
LogOf(d) == IF d = "1" THEN NLog ELSE XLog

\* C16: lookups for different documents do not conflict: the cache entry
\* of a document was stored by a lookup for that document, and the result a
\* lookup computes for a document (the directory unchanged under it) is the
\* aggregation of that document's own log.
C16_DocumentsAreIndependent ==
    /\ \A d \in DocIds :
           statsCache[d] # None => reqs[statsCache[d].stats.ref].docId = d
    /\ \A r \in Undisturbed :
           (reqs[r].invoked /\ reqs[r].resp.status = 200) =>
               \E c \in {reqs[r].doneAt - 1, reqs[r].doneAt} :
               \E clocks \in ClockReadings(variant, c) :
                   /\ clocks[4] = reqs[r].doneAt
                   /\ reqs[r].resp.stats.val =
                          aggregateDailyPvUv(variant,
                              parseLog(files[LogOf(reqs[r].docId)]), clocks)

----------------------------------------------------------------------------
(* Daily and weekly active users (under SpecAgg) *)

\* The subjects with a valid event on a calendar day from day number lo to
\* day number hi.
SubjectsBetween(lo, hi) ==
    {Subject(aggIn[i]) : i \in {j \in ValidEvents :
        /\ aggIn[j].lastTs.k = "num"
        /\ DayOf(aggIn[j].lastTs.n) \in lo..hi}}

\* C21: in the trailing-window variant yesterdayDau is the number of
\* distinct subjects with a valid event on the day before today, and wau
\* the number of distinct subjects with a valid event on one of the seven
\* days ending today, today being one calendar day that the clock showed
\* during the run.
C21_YesterdayDauAndWau ==
    \A k \in Returned :
        variant = "window" =>
            \E today \in {DayOf(aggRuns[k].clocks[i]) : i \in 1..4} :
                /\ aggRuns[k].out.yesterdayDau =
                       Cardinality(SubjectsBetween(today - 1, today - 1))
                /\ aggRuns[k].out.wau =
                       Cardinality(SubjectsBetween(today - 6, today))

----------------------------------------------------------------------------
(* Properties of ingestion (under SpecRoutes) *)

\* The ingestion requests served so far.
Hooks == {k \in DOMAIN sent : sent[k].route = "hook"}

\* A body that lacks one of docName, docId, docType, ts.
LacksRequired(body) ==
    \E field \in {"docName", "docId", "docType"} : body[field] = <<>>
    \/ body.ts = Absent

\* The records a log file holds; none when there is no file.
Records(file) ==
    IF file = NoFile THEN <<>>
    ELSE IF file.content.kind = "array" THEN file.content.elems
    ELSE <<>>

\* The content of file a extends that of file b: it is the same content,
\* or both are arrays of records and b's records open a's.
Extends(a, b) ==
    \/ a.content = b.content
    \/ /\ b = NoFile \/ b.content.kind = "array"
       /\ a.content.kind = "array"
       /\ Len(Records(b)) <= Len(a.content.elems)
       /\ SubSeq(a.content.elems, 1, Len(Records(b))) = Records(b)

\* C22: an ingestion request with the required fields and a viewer appends
\* exactly one record { name, nickname, lastTs } to the document's log
\* (given a storage directory and a write that does not fail); one without
\* a viewer leaves the log as it was; and whatever happens, the log after
\* the request extends the log before it.
C22_IngestionAppendsOneRecord ==
    \A k \in Hooks :
        LET e == sent[k]
        IN  /\ (~LacksRequired(e.body) /\ e.body.user.present
                    /\ dirExists /\ e.logFault = "none")
                   => /\ e.after[NLog].content.kind = "array"
                      /\ e.after[NLog].content.elems =
                             Append(Records(e.before[NLog]),
                                    UserReadInfo(e.body.user.name,
                                                 e.body.user.nickname, e.body.ts))
            /\ ~e.body.user.present => e.after[NLog] = e.before[NLog]
            /\ Extends(e.after[NLog], e.before[NLog])

\* C23: an ingestion request that lacks a required field is answered with
\* the error payload (code 1, status 'error', unlike the success payload)
\* and changes no file.
C23_MissingFieldRejectedBeforeWrite ==
    \A k \in Hooks :
        LacksRequired(sent[k].body) =>
            /\ sent[k].resp.code = 1
            /\ sent[k].resp.status = "error"
            /\ sent[k].resp # okPayload
            /\ sent[k].after = sent[k].before

\* C23 witness: with a log in the directory, a request without ts and
\* then one without docName were rejected.
C23_Witness ==
    /\ Len(sent) = 2
    /\ Hooks = {1, 2}
    /\ sent[1].body.ts = Absent
    /\ sent[2].body.docName = <<>>
    /\ sent[2].resp.code = 1
    /\ sent[2].before[NLog] # NoFile

\* C24: a failing write does not change the response: with the required
\* fields present the answer is the success payload, and a log write that
\* fails leaves the log as it was.
C24_WriteFailureIsSilent ==
    \A k \in Hooks :
        ~LacksRequired(sent[k].body) =>
            /\ sent[k].resp = okPayload
            /\ sent[k].logFault # "none" =>
                   sent[k].after[NLog] = sent[k].before[NLog]

----------------------------------------------------------------------------
(* Properties of the statistics responses (under SpecRoutes) *)

\* The word json in any mix of upper and lower case.
JsonAnyCase(format) ==
    /\ Len(format) = 4
    /\ format[1] \in {"j", "J"} /\ format[2] \in {"s", "S"}
    /\ format[3] \in {"o", "O"} /\ format[4] \in {"n", "N"}

\* C25, "json" read without regard to case, as the handler compares it:
\* the response of the statistics route is the JSON payload exactly when
\* format is "json", and the HTML view for every other value or none;
\* either way it carries the result the cache holds for the document.
C25_JsonExactlyForJson ==
    [][\A r \in Reqs :
          Answered(r) =>
              /\ reqs'[r].kind = "json" <=> JsonAnyCase(reqs'[r].format)
              /\ reqs'[r].kind \in {"json", "html"}
              /\ statsCache'[reqs'[r].docId] # None
              /\ reqs'[r].resp.stats = statsCache'[reqs'[r].docId].stats]_vars

----------------------------------------------------------------------------
(* Properties of failing requests (under SpecRoutes) and of the cooldown *)

\* A request of another route is answered in this step with HTTP 500.
SentError == Len(sent') > Len(sent) /\ sent'[Len(sent')].resp.http = 500

\* C27: every request that ends has one response, which no later step
\* replaces or follows with another: the handler's result, or the error
\* response (HTTP 500, status 'error') when the handler failed.  The step
\* in which a request fails changes neither the cache nor the last-refresh
\* time nor the storage nor any other request, which the process goes on
\* serving.
C27_FailureEndsOnlyTheRequest ==
    /\ [](/\ \A r \in Done :
                \/ reqs[r].resp.status = 200 /\ reqs[r].resp.stats # NoStats
                \/ reqs[r].resp = errorResponse /\ reqs[r].kind = "error"
          /\ \A k \in DOMAIN sent :
                \/ sent[k].resp.http \in {200, 404}
                \/ sent[k].resp = internalError)
    /\ [][/\ \A r \in Reqs : reqs[r].pc = "done" => reqs'[r] = reqs[r]
          /\ Len(sent') >= Len(sent) /\ SubSeq(sent', 1, Len(sent)) = sent
          /\ Len(sent') <= Len(sent) + 1
          /\ \A r \in Reqs :
                (Answered(r) /\ reqs'[r].resp.status # 200) =>
                    /\ reqs'[r].resp = errorResponse
                    /\ statsCache' = statsCache
                    /\ LastReloadTime' = LastReloadTime
                    /\ files' = files
                    /\ sent' = sent
                    /\ \A q \in Reqs \ {r} : reqs'[q] = reqs[q]
          /\ SentError =>
                    /\ statsCache' = statsCache
                    /\ LastReloadTime' = LastReloadTime
                    /\ files' = files
                    /\ reqs' = reqs]_vars

\* C27 witness: an ingestion request failed in its handler and was
\* answered with HTTP 500 while a statistics request was under way; that
\* request then completed with statistics that the cache holds.
C27_Witness ==
    \E q \in Done :
        /\ Len(sent) = 1
        /\ sent[1].route = "hook" /\ sent[1].resp = internalError
        /\ reqs[q].resp.status = 200
        /\ reqs[q].invoked
        /\ statsCache[reqs[q].docId] # None
        /\ statsCache[reqs[q].docId].stats = reqs[q].resp.stats

\* Request r arrives in this step.
Arrives(r) == reqs[r].pc = "none" /\ reqs'[r].pc # "none"

\* C28: the last-refresh timestamp never decreases, and a step changes it
\* only when a request with refresh=1 arrives and finds the cooldown over
\* when it tests the clock: it then becomes what the clock shows at the
\* assignment, no earlier than the time tested.  A request without
\* refresh=1 or downgraded inside the cooldown leaves it unchanged.
C28_OnlyHonouredRefreshStamps ==
    [][/\ LastReloadTime' >= LastReloadTime
       /\ \A r \in Reqs :
              Arrives(r) =>
                  IF reqs'[r].refresh
                         /\ reqs'[r].testAt - LastReloadTime >= CooldownTicks
                  THEN /\ LastReloadTime' = reqs'[r].stampAt
                       /\ reqs'[r].stampAt >= reqs'[r].testAt
                       /\ reqs'[r].testAt >= now
                  ELSE LastReloadTime' = LastReloadTime
       /\ (\A r \in Reqs : ~Arrives(r)) => LastReloadTime' = LastReloadTime]_vars

\* C28 witness: an honoured refresh, then a request without refresh=1 and,
\* inside the cooldown, a refresh that was downgraded, the timestamp still
\* being what the honoured one recorded.
C28_Witness ==
    /\ Arrived = {1, 2, 3}
    /\ reqs[1].refresh /\ reqs[1].force
    /\ ~reqs[2].refresh
    /\ reqs[3].refresh /\ ~reqs[3].force
    /\ reqs[3].at > reqs[1].at
    /\ reqs[3].testAt - reqs[1].stampAt < CooldownTicks
    /\ LastReloadTime = reqs[1].stampAt

\* C29: a refresh=1 request whose recomputation failed (error response,
\* nothing stored) does not count for the cooldown: the next refresh=1
\* request, arriving after the failure with no successful forced refresh in
\* between, is honoured.
C29_FailedRefreshLeavesCooldown ==
    \A p, q \in Arrived :
        (/\ p < q
         /\ reqs[p].force /\ reqs[p].pc = "done"
         /\ reqs[p].resp.status = 500
         /\ reqs[p].doneAt < reqs[q].at
         /\ reqs[q].refresh
         /\ \A x \in Arrived : (p < x /\ x < q) => ~reqs[x].force)
            => reqs[q].force

----------------------------------------------------------------------------
(* Properties of lookups interleaved with ingestion (under SpecRace) *)

\* Every ingestion request so far left each log as it was or longer.
AppendOnly ==
    \A k \in Hooks : \A f \in LogNames :
        Extends(sent[k].after[f], sent[k].before[f])

\* C30: within one calendar day and with an append-only log, a step that
\* replaces a document's cache entry never stores statistics with a smaller
\* totalPv than the entry it replaces.
C30_CacheNeverRegresses ==
    [][\A d \in DocIds :
           (/\ AppendOnly'
            /\ statsCache[d] # None /\ statsCache'[d] # None
            /\ statsCache'[d].date = statsCache[d].date)
               => statsCache'[d].stats.val.totalPv >= statsCache[d].stats.val.totalPv]_vars

----------------------------------------------------------------------------
(* Properties of interleaved ingestion requests (under SpecRoutes) *)

\* The records asked to be appended to the log of document 1 by the first
\* k requests served, in arrival order: one for each ingestion request
\* with the required fields and a viewer.
RECURSIVE Asked(_)
Asked(k) ==
    IF k = 0 THEN <<>>
    ELSE LET e == sent[k]
         IN  IF e.route = "hook" /\ ~LacksRequired(e.body) /\ e.body.user.present
             THEN Append(Asked(k - 1),
                         UserReadInfo(e.body.user.name, e.body.user.nickname,
                                      e.body.ts))
             ELSE Asked(k - 1)

\* The log of document 1 before the first request was served.
FirstLog == IF sent = <<>> THEN files[NLog]
            ELSE IF sent[1].route = "hook" THEN sent[1].before[NLog]
            ELSE IF Len(sent) > 1 /\ sent[2].route = "hook" THEN sent[2].before[NLog]
            ELSE files[NLog]

\* C31: starting from an absent log or a log holding an array, in a
\* storage directory, the log after any number of ingestion requests holds
\* the records it held at first followed by one record for each request
\* that carried a viewer, in arrival order.
C31_NoAppendLost ==
    (dirExists /\ (FirstLog = NoFile \/ FirstLog.content.kind = "array"))
        => Records(files[NLog]) = Records(FirstLog) \o Asked(Len(sent))

----------------------------------------------------------------------------
(* Properties of the window served across midnight (under Spec) *)

\* C32: in the trailing-window variant every result a lookup returns, from
\* the cache or freshly computed, ends its window on the calendar day on
\* which the response is sent, also when the day rolled over while the log
\* was being read or while the aggregator ran.
C32_WindowEndsOnDayOfReturn ==
    \A r \in Done :
        (variant = "window" /\ reqs[r].resp.status = 200)
            => /\ Len(reqs[r].resp.stats.val.days) = 10
               /\ reqs[r].resp.stats.val.days[10] = ymd(reqs[r].doneAt)

----------------------------------------------------------------------------
(* Consistency of the derived counters (under SpecAgg) *)

\* The last seven entries of the unique-visitor series of run k.
WeekUv(k) == SubSeq(aggRuns[k].out.uvSeries, 4, 10)

\* C33: in every trailing-window result yesterdayDau is the second-to-last
\* entry of uvSeries, each of the last seven entries of uvSeries is at most
\* wau, wau is at most the sum of those seven entries, and
\* yesterdayDau <= wau <= totalUv.
C33_DerivedCountersConsistent ==
    \A k \in Returned :
        variant = "window" =>
            LET out == aggRuns[k].out
            IN  /\ Len(out.uvSeries) = 10
                /\ out.yesterdayDau = out.uvSeries[9]
                /\ \A i \in 1..7 : WeekUv(k)[i] <= out.wau
                /\ out.wau <= SumSeq(WeekUv(k))
                /\ out.yesterdayDau <= out.wau
                /\ out.wau <= out.totalUv

====
